---- MODULE Spec2Model ----
(***************************************************************************)
(* Model of etl_project/etl/load.py: the schema comparator                 *)
(* (are_schemas_compatible) and the versioned-table loader                 *)
(* (load_to_postgres) working against a relational store.                  *)
(*                                                                         *)
(* A schema map (a Python dict, insertion ordered, keys distinct) is a     *)
(* sequence of records [name, type].  A type is the name of a SQLAlchemy   *)
(* type class.  A table name is a tuple: <<base>> for a base table and     *)
(* <<base, stamp>> for f"{base}_{timestamp}".                              *)
(***************************************************************************)
EXTENDS Integers, Sequences, FiniteSets, TLC

\* ------------------------------------------------------------------ bounds
MaxRows == 2
MaxCalls == 2
MaxClock == 1

\* Width of the rendered timestamp (the model's stand-in for the 20 digits of
\* "%Y%m%d%H%M%S%f"); every clock value of the model fits in it.
StampWidth == 2

ColNames == {"id", "name"}
BaseNames == {"clean_data"}

\* ------------------------------------------------- SQLAlchemy type classes
\* The generic classes PYTHON_TO_SQLALCHEMY_TYPE_MAP can produce.
GenericTypes == {"Float", "String", "DateTime", "Integer", "Boolean"}

\* The classes a reflected PostgreSQL column can have (type(col_info['type'])).
ReflectedTypes ==
    {"VARCHAR", "TEXT", "INTEGER", "BIGINT", "DOUBLE_PRECISION", "NUMERIC",
     "TIMESTAMP", "DATE", "BOOLEAN", "BYTEA"}

TypeClasses == GenericTypes \cup ReflectedTypes

\* The direct base class of each type class in sqlalchemy.types, as far as the
\* issubclass tests of are_schemas_compatible can see it.
BaseClass(t) ==
    CASE t = "VARCHAR" -> "String"
      [] t = "TEXT" -> "Text"
      [] t = "Text" -> "String"
      [] t = "INTEGER" -> "Integer"
      [] t = "BIGINT" -> "BigInteger"
      [] t = "BigInteger" -> "Integer"
      [] t = "DOUBLE_PRECISION" -> "Float"
      [] t = "Float" -> "Numeric"
      [] t = "NUMERIC" -> "Numeric"
      [] t = "TIMESTAMP" -> "DateTime"
      [] t = "DATE" -> "Date"
      [] t = "BOOLEAN" -> "Boolean"
      [] t = "BYTEA" -> "LargeBinary"
      [] OTHER -> "TypeEngine"

RECURSIVE issubclass(_, _)
issubclass(t, c) ==
    IF t = c THEN TRUE
    ELSE IF t = "TypeEngine" THEN FALSE
    ELSE issubclass(BaseClass(t), c)

\* ------------------------------------------------------------ schema maps
Names(schema) == [i \in 1..Len(schema) |-> schema[i].name]

\* dict.get(col_name): the type of the column, or "None".
Get(schema, col_name) ==
    IF \E i \in 1..Len(schema) : schema[i].name = col_name
    THEN LET i == CHOOSE j \in 1..Len(schema) : schema[j].name = col_name
         IN schema[i].type
    ELSE "None"

\* The key lists a dict can have: sequences of distinct column names.
ColumnLists ==
    {c \in UNION {[1..n -> ColNames] : n \in 0..Cardinality(ColNames)} :
        \A i, j \in 1..Len(c) : i # j => c[i] # c[j]}

\* The schema maps over a set of type classes.
SchemaMaps(types) ==
    UNION {{[i \in 1..Len(c) |-> [name |-> c[i], type |-> f[i]]] :
                f \in [1..Len(c) -> types]} : c \in ColumnLists}

\* -------------------------------------------------- are_schemas_compatible
\* Mutant: the category test with "or" in place of "and" in its first clause.
SameCategory_or(db_type_class, current_type_class) ==
    \/ issubclass(db_type_class, "String") \/ issubclass(current_type_class, "String")
    \/ issubclass(db_type_class, "Numeric") /\ issubclass(current_type_class, "Numeric")
    \/ issubclass(db_type_class, "DateTime") /\ issubclass(current_type_class, "DateTime")
    \/ issubclass(db_type_class, "Boolean") /\ issubclass(current_type_class, "Boolean")

\* Mutant: the category test without its String clause.
SameCategory_no_str(db_type_class, current_type_class) ==
    \/ issubclass(db_type_class, "Numeric") /\ issubclass(current_type_class, "Numeric")
    \/ issubclass(db_type_class, "DateTime") /\ issubclass(current_type_class, "DateTime")
    \/ issubclass(db_type_class, "Boolean") /\ issubclass(current_type_class, "Boolean")

\* Lines 68-82: the two classes fall under the same one of the four base
\* classes tested with issubclass.
SameCategory(db_type_class, current_type_class) ==
    \/ issubclass(db_type_class, "String") /\ issubclass(current_type_class, "String")
    \/ issubclass(db_type_class, "Numeric") /\ issubclass(current_type_class, "Numeric")
    \/ issubclass(db_type_class, "DateTime") /\ issubclass(current_type_class, "DateTime")
    \/ issubclass(db_type_class, "Boolean") /\ issubclass(current_type_class, "Boolean")

\* Mutant: the loop body without the class equality test of line 64.
ColumnCompatible_no_equality(db_schema, col_name, current_type_class) ==
    LET db_type_class == Get(db_schema, col_name)
    IN IF db_type_class = "None" THEN FALSE
       ELSE \/ issubclass(db_type_class, "String") /\ issubclass(current_type_class, "String")
            \/ issubclass(db_type_class, "Numeric") /\ issubclass(current_type_class, "Numeric")
            \/ issubclass(db_type_class, "DateTime") /\ issubclass(current_type_class, "DateTime")
            \/ issubclass(db_type_class, "Boolean") /\ issubclass(current_type_class, "Boolean")

\* Lines 56-88, one iteration of the loop: TRUE when the loop continues.
ColumnCompatible(db_schema, col_name, current_type_class) ==
    LET db_type_class == Get(db_schema, col_name)
    IN IF db_type_class = "None" THEN FALSE
       ELSE IF db_type_class = current_type_class THEN TRUE
       ELSE SameCategory(db_type_class, current_type_class)

\* Mutant: the key lists compared as sets (sorted), so that order is ignored.
are_schemas_compatible_sorted_keys(db_schema, current_schema) ==
    IF {db_schema[i].name : i \in 1..Len(db_schema)}
         # {current_schema[i].name : i \in 1..Len(current_schema)}
    THEN FALSE
    ELSE \A i \in 1..Len(current_schema) :
            LET db_type_class == Get(db_schema, current_schema[i].name)
                current_type_class == current_schema[i].type
            IN \/ db_type_class = current_type_class
               \/ issubclass(db_type_class, "String") /\ issubclass(current_type_class, "String")
               \/ issubclass(db_type_class, "Numeric") /\ issubclass(current_type_class, "Numeric")
               \/ issubclass(db_type_class, "DateTime") /\ issubclass(current_type_class, "DateTime")
               \/ issubclass(db_type_class, "Boolean") /\ issubclass(current_type_class, "Boolean")

\* Mutant: the loop runs over the columns of the table and the key lists are
\* not compared, so that a column only the batch has goes unnoticed.
are_schemas_compatible_db_columns(db_schema, current_schema) ==
    \A i \in 1..Len(db_schema) :
        LET db_type_class == db_schema[i].type
            current_type_class == Get(current_schema, db_schema[i].name)
        IN \/ db_type_class = current_type_class
           \/ issubclass(db_type_class, "String") /\ issubclass(current_type_class, "String")
           \/ issubclass(db_type_class, "Numeric") /\ issubclass(current_type_class, "Numeric")
           \/ issubclass(db_type_class, "DateTime") /\ issubclass(current_type_class, "DateTime")
           \/ issubclass(db_type_class, "Boolean") /\ issubclass(current_type_class, "Boolean")

are_schemas_compatible(db_schema, current_schema) ==
    IF Names(db_schema) # Names(current_schema) THEN FALSE
    ELSE \A i \in 1..Len(current_schema) :
            ColumnCompatible(db_schema, current_schema[i].name, current_schema[i].type)

\* ------------------------------------------------ get_sqlalchemy_schema_map
\* The Python types the type maps of the model hold; "object" stands for any
\* tag outside the keys of PYTHON_TO_SQLALCHEMY_TYPE_MAP.
PyTypes == {"float", "str", "int", "object"}

\* PYTHON_TO_SQLALCHEMY_TYPE_MAP.get(python_type)
PYTHON_TO_SQLALCHEMY_TYPE_MAP(python_type) ==
    CASE python_type = "float" -> "Float"
      [] python_type = "str" -> "String"
      [] python_type = "Timestamp" -> "DateTime"
      [] python_type = "int" -> "Integer"
      [] python_type = "bool" -> "Boolean"
      [] OTHER -> "None"

\* The type maps: dicts from some of the column names to Python types.
TypeMaps == UNION {[D -> PyTypes] : D \in SUBSET ColNames}

\* Mutant: a column without a mapped type is left out of the schema.
get_sqlalchemy_schema_map_mapped_only(type_map, df_columns) ==
    LET mapped == SelectSeq(df_columns,
                    LAMBDA col : /\ col \in DOMAIN type_map
                                 /\ PYTHON_TO_SQLALCHEMY_TYPE_MAP(type_map[col]) # "None")
    IN [i \in 1..Len(mapped) |->
            [name |-> mapped[i],
             type |-> PYTHON_TO_SQLALCHEMY_TYPE_MAP(type_map[mapped[i]])]]

get_sqlalchemy_schema_map(type_map, df_columns) ==
    [i \in 1..Len(df_columns) |->
        LET col == df_columns[i]
            python_type == IF col \in DOMAIN type_map THEN type_map[col] ELSE "None"
            sqlalchemy_type_class == PYTHON_TO_SQLALCHEMY_TYPE_MAP(python_type)
        IN [name |-> col,
            type |-> IF sqlalchemy_type_class # "None"
                     THEN sqlalchemy_type_class ELSE "String"]]

\* ------------------------------------------------------------- the store
\* The column type PostgreSQL reports back (inspector.get_columns) for a
\* column that to_sql created from a generic class of the dtype argument.
Reflected(sqlalchemy_type_class) ==
    CASE sqlalchemy_type_class = "Float" -> "DOUBLE_PRECISION"
      [] sqlalchemy_type_class = "String" -> "VARCHAR"
      [] sqlalchemy_type_class = "DateTime" -> "TIMESTAMP"
      [] sqlalchemy_type_class = "Integer" -> "INTEGER"
      [] sqlalchemy_type_class = "Boolean" -> "BOOLEAN"
      [] OTHER -> sqlalchemy_type_class

ReflectedSchema(schema) ==
    [i \in 1..Len(schema) |-> [name |-> schema[i].name, type |-> Reflected(schema[i].type)]]

\* The rows of the batch of call number id: n rows, told apart by their index.
BatchRows(id, n) == [i \in 1..n |-> <<id, i>>]

\* strftime("%Y%m%d%H%M%S%f"): the instant as a fixed-width string of digits.
RECURSIVE Pow10(_)
Pow10(k) == IF k = 0 THEN 1 ELSE 10 * Pow10(k - 1)

strftime(t) == [i \in 1..StampWidth |-> (t \div Pow10(StampWidth - i)) % 10]

\* f"{base_table_name}_{timestamp}"
VersionedName(base, t) == <<base, strftime(t)>>

\* The types a table created by another writer may have in its columns.
ExternalTypes == {"INTEGER", "VARCHAR", "TEXT"}

\* ------------------------------------------------------------------ state
VARIABLES
    store,          \* the tables of the database: table name -> [cols, rows]
    clock,          \* what datetime.datetime.now() returns
    calls,          \* number of load_to_postgres calls made so far
    pc,             \* position of the running call, "idle" between calls
    engine,         \* "none", "live" (create_engine) or "disposed"
    result,         \* how the last call ended: "none", "skipped" (line 98),
                    \* "processed" (line 142) or "raised"
    base_table_name,
    df,             \* the batch: [columns, rows]
    current_sqlalchemy_schema_map,
    table_exists,
    db_schema_map,
    compatible,     \* what are_schemas_compatible returned, "unset" before it ran
    final_table_name,
    if_exists,      \* the if_exists argument of the to_sql call
    raised,         \* an exception is propagating
    ops,            \* store operations of the last call, by kind
    store0,         \* history: the store when the running call was entered
    versioned_names,\* history: the versioned names computed so far (lines
                    \* 124, 134), in the order they were computed
    \* auto_cast_and_validate (validate.py)
    vpc,            \* position of the call: "off", "called" or "returned"
    v_df,           \* its argument df: [columns, rows], a row being a tuple of cells
    v_type_map,     \* its argument type_map: the list of its items [name, type]
    casted_df,      \* what it returns
    errors,
    validation_errors,
    \* run_pipeline (dags/etl_pipeline.py)
    ppc,            \* position of the run, "off" outside a run
    stages          \* history: the stages the run has been through, in order

vars == <<store, clock, calls, pc, engine, result, base_table_name, df,
          current_sqlalchemy_schema_map, table_exists, db_schema_map, compatible,
          final_table_name, if_exists, raised, ops, store0, versioned_names,
          vpc, v_df, v_type_map, casted_df, errors, validation_errors,
          ppc, stages>>

validate_vars == <<vpc, v_df, v_type_map, casted_df, errors, validation_errors>>
pipeline_vars == <<ppc, stages>>

NoOps == [has_table |-> 0, get_columns |-> 0, to_sql |-> 0]

\* A table of the database that no call of the model names.
OtherTable ==
    <<"other_table">> :>
        [cols |-> <<[name |-> "id", type |-> "INTEGER"]>>, rows |-> <<<<0, 1>>>>]

\* The locals of load_to_postgres outside a call.
NoCall ==
    /\ base_table_name = "unset"
    /\ df = [columns |-> <<>>, rows |-> <<>>]
    /\ table_exists = "unset"
    /\ final_table_name = "unset"
    /\ if_exists = "unset"
    /\ raised = FALSE

\* No call of auto_cast_and_validate is under way.
ValidateOff ==
    /\ vpc = "off"
    /\ v_df = [columns |-> <<>>, rows |-> <<>>]
    /\ v_type_map = <<>>
    /\ casted_df = [columns |-> <<>>, rows |-> <<>>]
    /\ errors = <<>>
    /\ validation_errors = <<>>

\* No run of the pipeline is under way.
PipelineOff ==
    /\ ppc = "off"
    /\ stages = <<>>

Init ==
    /\ store = OtherTable
    /\ store0 = OtherTable
    /\ clock = 0
    /\ calls = 0
    /\ pc = "idle"
    /\ engine = "none"
    /\ result = "none"
    /\ ops = NoOps
    /\ NoCall
    /\ current_sqlalchemy_schema_map = <<>>
    /\ db_schema_map = <<>>
    /\ compatible = "unset"
    /\ versioned_names = <<>>
    /\ ValidateOff
    /\ PipelineOff

inspector_has_table(table_name) == table_name \in DOMAIN store

\* A Python bool held in a variable that is "unset" before its assignment.
Bool(b) == IF b THEN "True" ELSE "False"

\* ------------------------------------------------------- load_to_postgres
\* Lines 93-95: the call is entered and create_engine(db_uri) gives the engine.
load_to_postgres(columns, nrows, base) ==
    /\ pc = "idle"
    /\ calls < MaxCalls
    /\ calls' = calls + 1
    /\ base_table_name' = base
    /\ df' = [columns |-> columns, rows |-> BatchRows(calls + 1, nrows)]
    /\ engine' = "live"
    /\ result' = "none"
    /\ ops' = NoOps
    /\ store0' = store
    /\ pc' = "check"
    /\ UNCHANGED <<store, clock, current_sqlalchemy_schema_map, table_exists,
                   db_schema_map, compatible, final_table_name, if_exists, raised,
                   versioned_names>>

\* Mutant: the call returns without engine.dispose().
Return_engine_kept(how) ==
    /\ result' = how
    /\ pc' = "idle"
    /\ base_table_name' = "unset"
    /\ df' = [columns |-> <<>>, rows |-> <<>>]
    /\ table_exists' = "unset"
    /\ final_table_name' = "unset"
    /\ if_exists' = "unset"
    /\ raised' = FALSE
    /\ current_sqlalchemy_schema_map' = <<>>
    /\ db_schema_map' = <<>>
    /\ compatible' = "unset"
    /\ UNCHANGED <<store, clock, calls, ops, store0, engine,
                   versioned_names, validate_vars, pipeline_vars>>

\* The call returns or raises: engine.dispose() has run and the locals are gone.
Return(how) ==
    /\ engine' = "disposed"
    /\ result' = how
    /\ pc' = "idle"
    /\ base_table_name' = "unset"
    /\ df' = [columns |-> <<>>, rows |-> <<>>]
    /\ table_exists' = "unset"
    /\ final_table_name' = "unset"
    /\ if_exists' = "unset"
    /\ raised' = FALSE
    /\ current_sqlalchemy_schema_map' = <<>>
    /\ db_schema_map' = <<>>
    /\ compatible' = "unset"
    /\ UNCHANGED <<store, clock, calls, ops, store0,
                   versioned_names, validate_vars, pipeline_vars>>

\* Mutant: only a batch without columns counts as empty.
is_empty_no_columns(batch) == batch.columns = <<>>

\* Line 97: df.empty or not list(df.columns)
is_empty(batch) == batch.rows = <<>> \/ batch.columns = <<>>

\* Lines 97-100: an empty batch: dispose the engine and return.
SkipEmpty ==
    /\ pc = "check"
    /\ is_empty(df)
    /\ Return("skipped")

\* Lines 104-110: the target schema of a batch that is not empty.
BuildSchema(type_map) ==
    /\ pc = "check"
    /\ ~is_empty(df)
    /\ current_sqlalchemy_schema_map' = get_sqlalchemy_schema_map(type_map, df.columns)
    /\ final_table_name' = <<base_table_name>>
    /\ pc' = "probe"
    /\ UNCHANGED <<store, clock, calls, engine, result, base_table_name, df,
                   table_exists, db_schema_map, compatible, if_exists, raised, ops,
                   store0,
                   versioned_names, validate_vars, pipeline_vars>>

\* A store operation raises: lines 144-149 print and re-raise.
Raise ==
    /\ raised' = TRUE
    /\ pc' = "finally"

\* Lines 113-116 and 137-139: inspector.has_table(base_table_name); a table
\* that is not there is to be created under the base name.
Probe ==
    /\ pc = "probe"
    /\ ops' = [ops EXCEPT !.has_table = @ + 1]
    /\ \/ /\ Raise
          /\ UNCHANGED <<table_exists, if_exists>>
       \/ /\ table_exists' = Bool(inspector_has_table(<<base_table_name>>))
          /\ pc' = IF table_exists' = "True" THEN "fetch" ELSE "to_sql"
          /\ if_exists' = IF table_exists' = "True" THEN if_exists ELSE "fail"
          /\ UNCHANGED raised
    /\ UNCHANGED <<store, clock, calls, engine, result, base_table_name, df,
                   current_sqlalchemy_schema_map, db_schema_map, compatible,
                   final_table_name, store0,
                   versioned_names, validate_vars, pipeline_vars>>

\* Lines 34-42: the columns of the table, {} when the table is not there.
get_db_table_schema_map(table_name) ==
    IF inspector_has_table(table_name) THEN store[table_name].cols ELSE <<>>

\* Mutant: a batch the base table is not compatible with is appended to a
\* versioned table of the base name that has the schema of the batch.
ChooseWrite_reuse_versioned(db_schema, current_schema, base, now) ==
    LET same == {name \in DOMAIN store :
                    /\ Len(name) = 2
                    /\ name[1] = base
                    /\ store[name].cols = ReflectedSchema(current_schema)}
    IN IF db_schema = <<>>
       THEN [compatible |-> "unset",
             final_table_name |-> VersionedName(base, now), if_exists |-> "fail"]
       ELSE IF are_schemas_compatible(db_schema, current_schema)
       THEN [compatible |-> "True", final_table_name |-> <<base>>, if_exists |-> "append"]
       ELSE IF same # {}
       THEN [compatible |-> "False",
             final_table_name |-> CHOOSE name \in same : TRUE, if_exists |-> "append"]
       ELSE [compatible |-> "False",
             final_table_name |-> VersionedName(base, now), if_exists |-> "fail"]

\* Mutant: a schema that came back empty is appended to.
ChooseWrite_append_unverified(db_schema, current_schema, base, now) ==
    IF db_schema = <<>> \/ are_schemas_compatible(db_schema, current_schema)
    THEN [compatible |-> "True", final_table_name |-> <<base>>, if_exists |-> "append"]
    ELSE [compatible |-> "False",
          final_table_name |-> VersionedName(base, now), if_exists |-> "fail"]

\* Lines 120-136: the write chosen for a base table that exists, from its
\* fetched schema, the target schema and the clock.
ChooseWrite(db_schema, current_schema, base, now) ==
    IF db_schema = <<>>
    THEN [compatible |-> "unset",
          final_table_name |-> VersionedName(base, now), if_exists |-> "fail"]
    ELSE IF are_schemas_compatible(db_schema, current_schema)
    THEN [compatible |-> "True", final_table_name |-> <<base>>, if_exists |-> "append"]
    ELSE [compatible |-> "False",
          final_table_name |-> VersionedName(base, now), if_exists |-> "fail"]

\* Lines 118-136: fetch the persisted schema and choose the write.
Fetch ==
    /\ pc = "fetch"
    /\ ops' = [ops EXCEPT !.has_table = @ + 1, !.get_columns = @ + 1]
    /\ \/ /\ Raise
          /\ UNCHANGED <<db_schema_map, compatible, final_table_name, if_exists,
                         versioned_names>>
       \/ /\ db_schema_map' = get_db_table_schema_map(<<base_table_name>>)
          /\ LET w == ChooseWrite(db_schema_map', current_sqlalchemy_schema_map,
                                  base_table_name, clock)
             IN /\ compatible' = w.compatible
                /\ final_table_name' = w.final_table_name
                /\ if_exists' = w.if_exists
                /\ versioned_names' =
                        IF w.if_exists = "fail"
                        THEN Append(versioned_names, w.final_table_name)
                        ELSE versioned_names
          /\ pc' = "to_sql"
          /\ UNCHANGED raised
    /\ UNCHANGED <<store, clock, calls, engine, result, base_table_name, df,
                   current_sqlalchemy_schema_map, table_exists, store0,
                   validate_vars, pipeline_vars>>

\* Mutant: to_sql creates the table and inserts no row.
to_sql_no_insert(st, name, mode, schema, rows) ==
    IF name \in DOMAIN st
    THEN IF mode = "fail" THEN [raises |-> TRUE, tables |-> st]
         ELSE [raises |-> FALSE, tables |-> [st EXCEPT ![name].rows = @ \o rows]]
    ELSE [raises |-> FALSE,
          tables |-> st @@ (name :> [cols |-> ReflectedSchema(schema), rows |-> <<>>])]

\* Mutant: an append gives the table the columns of the dtype argument.
to_sql_append_alters(st, name, mode, schema, rows) ==
    IF name \in DOMAIN st
    THEN IF mode = "fail" THEN [raises |-> TRUE, tables |-> st]
         ELSE [raises |-> FALSE,
               tables |-> [st EXCEPT ![name] = [cols |-> ReflectedSchema(schema),
                                                rows |-> @.rows \o rows]]]
    ELSE [raises |-> FALSE,
          tables |-> st @@ (name :> [cols |-> ReflectedSchema(schema), rows |-> rows])]

\* Mutant: to_sql inserts the rows of the batch twice.
to_sql_twice(st, name, mode, schema, rows) ==
    IF name \in DOMAIN st
    THEN IF mode = "fail" THEN [raises |-> TRUE, tables |-> st]
         ELSE [raises |-> FALSE, tables |-> [st EXCEPT ![name].rows = @ \o rows \o rows]]
    ELSE [raises |-> FALSE,
          tables |-> st @@ (name :> [cols |-> ReflectedSchema(schema),
                                     rows |-> rows \o rows])]

\* Mutant: if_exists='fail' on a table that is there appends to it.
to_sql_fail_appends(st, name, mode, schema, rows) ==
    IF name \in DOMAIN st
    THEN [raises |-> FALSE, tables |-> [st EXCEPT ![name].rows = @ \o rows]]
    ELSE [raises |-> FALSE,
          tables |-> st @@ (name :> [cols |-> ReflectedSchema(schema), rows |-> rows])]

\* df.to_sql(name, engine, if_exists=mode, index=False, dtype=schema) on the
\* tables st: whether it raises (if_exists='fail' on a table that is there),
\* and the tables after it.
to_sql(st, name, mode, schema, rows) ==
    IF name \in DOMAIN st
    THEN IF mode = "fail" THEN [raises |-> TRUE, tables |-> st]
         ELSE [raises |-> FALSE, tables |-> [st EXCEPT ![name].rows = @ \o rows]]
    ELSE [raises |-> FALSE,
          tables |-> st @@ (name :> [cols |-> ReflectedSchema(schema), rows |-> rows])]

\* Lines 126, 130, 136, 139: the one write of the call.
Write ==
    /\ pc = "to_sql"
    /\ ops' = [ops EXCEPT !.to_sql = @ + 1]
    /\ LET written == to_sql(store, final_table_name, if_exists,
                             current_sqlalchemy_schema_map, df.rows)
       IN \/ /\ Raise
             /\ UNCHANGED store
          \/ /\ ~written.raises
             /\ store' = written.tables
             /\ pc' = "finally"
             /\ UNCHANGED raised
    /\ UNCHANGED <<clock, calls, engine, result, base_table_name, df,
                   current_sqlalchemy_schema_map, table_exists, db_schema_map,
                   compatible, final_table_name, if_exists, store0,
                   versioned_names, validate_vars, pipeline_vars>>

\* Lines 142-152: the success message or the re-raise, after engine.dispose().
Finally ==
    /\ pc = "finally"
    /\ Return(IF raised THEN "raised" ELSE "processed")

\* ------------------------------------------------------- the environment
\* Another client creates a base table (CREATE TABLE ..., lines 269-272, with
\* INTEGER, VARCHAR(50) and TEXT columns).
ExternalCreate(base, schema) ==
    /\ pc = "idle"
    /\ <<base>> \notin DOMAIN store
    /\ store' = store @@ (<<base>> :> [cols |-> schema, rows |-> <<>>])
    /\ UNCHANGED <<clock, calls, pc, engine, result, base_table_name, df,
                   current_sqlalchemy_schema_map, table_exists, db_schema_map,
                   compatible, final_table_name, if_exists, raised, ops, store0,
                   versioned_names, validate_vars, pipeline_vars>>

\* Time passes between calls; a call reads the clock once (lines 123, 133).
Tick ==
    /\ pc = "idle"
    /\ clock < MaxClock
    /\ clock' = clock + 1
    /\ UNCHANGED <<store, calls, pc, engine, result, base_table_name, df,
                   current_sqlalchemy_schema_map, table_exists, db_schema_map,
                   compatible, final_table_name, if_exists, raised, ops, store0,
                   versioned_names, validate_vars, pipeline_vars>>

\* datetime.datetime.now() (lines 123, 133) is the local wall-clock time,
\* which is not monotonic: it is set back at the end of daylight saving time
\* or by an adjustment of the system clock.
SetBack ==
    /\ pc = "idle"
    /\ clock > 0
    /\ clock' = clock - 1
    /\ UNCHANGED <<store, calls, pc, engine, result, base_table_name, df,
                   current_sqlalchemy_schema_map, table_exists, db_schema_map,
                   compatible, final_table_name, if_exists, raised, ops, store0,
                   versioned_names, validate_vars, pipeline_vars>>

\* Another writer, not coordinated with the running call, creates the table
\* the call is about to create (the base table the probe did not find, line
\* 114, or the versioned name, lines 124 and 134) before the call's to_sql
\* (lines 126, 136, 139): a load of a batch of the same shape.
ConcurrentCreate ==
    /\ pc = "to_sql"
    /\ if_exists = "fail"
    /\ final_table_name \notin DOMAIN store
    /\ store' = store @@
            (final_table_name :>
                [cols |-> ReflectedSchema(current_sqlalchemy_schema_map),
                 rows |-> <<<<0, 1>>>>])
    /\ UNCHANGED <<clock, calls, pc, engine, result, base_table_name, df,
                   current_sqlalchemy_schema_map, table_exists, db_schema_map,
                   compatible, final_table_name, if_exists, raised, ops, store0,
                   versioned_names, validate_vars, pipeline_vars>>

Load ==
    \E columns \in ColumnLists, nrows \in 0..MaxRows, base \in BaseNames :
        /\ load_to_postgres(columns, nrows, base)
        /\ UNCHANGED <<validate_vars, pipeline_vars>>

Build == \E type_map \in TypeMaps : BuildSchema(type_map)

Create ==
    \E base \in BaseNames, schema \in SchemaMaps(ExternalTypes) :
        ExternalCreate(base, schema)

Next ==
    \/ Load
    \/ SkipEmpty
    \/ Build
    \/ Probe
    \/ Fetch
    \/ Write
    \/ Finally
    \/ Create
    \/ Tick

Spec == Init /\ [][Next]_vars

\* The loader with another writer acting between its probe and its write.
SpecConcurrent == Init /\ [][Next \/ ConcurrentCreate]_vars

\* The loader under a wall clock that can be set back between calls.
SpecWallClock == Init /\ [][Next \/ SetBack]_vars

\* ------------------------------------- are_schemas_compatible on its own
\* A direct call are_schemas_compatible(db_schema_map, current_schema_map)
\* on any two schema maps over the type classes.
InitCompare ==
    /\ store = OtherTable
    /\ store0 = OtherTable
    /\ clock = 0
    /\ calls = 0
    /\ pc = "compare"
    /\ engine = "none"
    /\ result = "none"
    /\ ops = NoOps
    /\ NoCall
    /\ db_schema_map \in SchemaMaps(TypeClasses)
    /\ current_sqlalchemy_schema_map \in SchemaMaps(TypeClasses)
    /\ compatible = "unset"
    /\ versioned_names = <<>>
    /\ ValidateOff
    /\ PipelineOff

CompareCall ==
    /\ pc = "compare"
    /\ compatible' =
            Bool(are_schemas_compatible(db_schema_map, current_sqlalchemy_schema_map))
    /\ pc' = "compared"
    /\ UNCHANGED <<store, clock, calls, engine, result, base_table_name, df,
                   current_sqlalchemy_schema_map, table_exists, db_schema_map,
                   final_table_name, if_exists, raised, ops, store0,
                   versioned_names, validate_vars, pipeline_vars>>

SpecCompare == InitCompare /\ [][CompareCall]_vars

\* The loader and the direct calls of the comparator together.
SpecBoth == (Init \/ InitCompare) /\ [][Next \/ CompareCall]_vars

\* --------------------------------- get_sqlalchemy_schema_map on its own
\* The tags a type_map can hold: the keys of PYTHON_TO_SQLALCHEMY_TYPE_MAP
\* (lines 9-15) and "object" for any other tag.
TypeTags == {"float", "str", "Timestamp", "int", "bool", "object"}

\* A Python dict keeps the order its keys were inserted in: the type_map as
\* the list of its items.
TypeMapItems == SchemaMaps(TypeTags)

\* What type_map.get and the in operator read of a dict: its keys and the
\* value of each, not the order of the items.
AsDict(items) ==
    [col \in {items[i].name : i \in 1..Len(items)} |-> Get(items, col)]

\* A direct call get_sqlalchemy_schema_map(type_map, list(df.columns)) on any
\* type_map and any list of columns.
InitSchema ==
    /\ store = OtherTable
    /\ store0 = OtherTable
    /\ clock = 0
    /\ calls = 0
    /\ pc = "schema"
    /\ engine = "none"
    /\ result = "none"
    /\ ops = NoOps
    /\ base_table_name = "unset"
    /\ df \in {[columns |-> columns, rows |-> <<>>] : columns \in ColumnLists}
    /\ table_exists = "unset"
    /\ final_table_name = "unset"
    /\ if_exists = "unset"
    /\ raised = FALSE
    /\ current_sqlalchemy_schema_map = <<>>
    /\ db_schema_map = <<>>
    /\ compatible = "unset"
    /\ versioned_names = <<>>
    /\ vpc = "off"
    /\ v_df = [columns |-> <<>>, rows |-> <<>>]
    /\ v_type_map \in TypeMapItems
    /\ casted_df = [columns |-> <<>>, rows |-> <<>>]
    /\ errors = <<>>
    /\ validation_errors = <<>>
    /\ PipelineOff

SchemaCall ==
    /\ pc = "schema"
    /\ current_sqlalchemy_schema_map' =
            get_sqlalchemy_schema_map(AsDict(v_type_map), df.columns)
    /\ pc' = "schema_built"
    /\ UNCHANGED <<store, clock, calls, engine, result, base_table_name, df,
                   table_exists, db_schema_map, compatible, final_table_name,
                   if_exists, raised, ops, store0, versioned_names,
                   validate_vars, pipeline_vars>>

SpecSchema == InitSchema /\ [][SchemaCall]_vars

\* ------------------------------------------- validate.py: the cells
\* A cell is a pair <<kind, text>>: a number, a string, or a null marker
\* (None or NaN, which pd.notnull does not tell apart).
Number == <<"num", "1.5">>
NumericString == <<"str", "1.5">>
OtherString == <<"str", "x">>
Null == <<"null", "nan">>

\* The cells a batch handed to auto_cast_and_validate holds.
RawCells == {Number, NumericString, OtherString, Null}

\* The Python types a type_map of auto_cast_and_validate holds.
VTypes == {"float", "str", "int", "bool"}

\* The type maps, each the list of its items in the order of its keys.
VTypeMaps == SchemaMaps(VTypes)

\* The batches: a list of distinct column names and up to MaxRows rows, each
\* row a tuple of cells, one per column.
VBatches ==
    UNION {{[columns |-> cols, rows |-> rows] :
                rows \in UNION {[1..n -> [1..Len(cols) -> RawCells]] :
                                  n \in IF cols = <<>> THEN {0} ELSE 0..MaxRows}} :
           cols \in ColumnLists}

isnull(cell) == cell[1] = "null"

\* Line 17: pd.to_numeric(..., errors='coerce') on one cell: a number stays,
\* a string is parsed, and what does not parse becomes NaN.
to_numeric(cell) ==
    IF cell[1] = "num" THEN cell
    ELSE IF cell[1] = "str" /\ cell[2] = "1.5" THEN Number
    ELSE Null

\* Line 20: astype(str) on one cell: str(value); None and NaN become the
\* strings 'None' and 'nan' (pandas 1.x and 2.x), which are not null.
astype_str(cell) ==
    IF cell[1] = "str" THEN cell
    ELSE IF cell[1] = "num" THEN <<"str", cell[2]>>
    ELSE <<"str", "nan">>

\* Lines 15-23: the conversion of one cell of a column of the type_map; there
\* is a branch for float, str and pd.Timestamp and none for any other type.
CastCell(expected_dtype, cell) ==
    IF expected_dtype = "float" THEN to_numeric(cell)
    ELSE IF expected_dtype = "str" THEN astype_str(cell)
    ELSE cell

\* Lines 7-25: casted_df, the copy of df with the columns of the type_map
\* converted.
Cast(batch, type_map) ==
    [columns |-> batch.columns,
     rows |-> [i \in 1..Len(batch.rows) |->
                [j \in 1..Len(batch.columns) |->
                    IF batch.columns[j] \in DOMAIN type_map
                    THEN CastCell(type_map[batch.columns[j]], batch.rows[i][j])
                    ELSE batch.rows[i][j]]]]

\* Lines 10-13: one MissingColumn error for each key of the type_map that
\* the batch does not have, in the order of the keys (the cells of the model
\* make no conversion raise).
CastErrors(batch, type_map) ==
    LET missing == SelectSeq(Names(type_map),
                        LAMBDA col : \A j \in 1..Len(batch.columns) : batch.columns[j] # col)
    IN [k \in 1..Len(missing) |-> [column |-> missing[k], error_type |-> "MissingColumn"]]

\* Mutant: the loop over the type_map stops at the first key the batch does
\* not have (break for continue at line 13).
CastLoop_stop_at_missing(batch, type_map) ==
    LET absent == {k \in 1..Len(type_map) :
                    \A j \in 1..Len(batch.columns) : batch.columns[j] # type_map[k].name}
        last == IF absent = {} THEN Len(type_map)
                ELSE CHOOSE k \in absent : \A l \in absent : k <= l
        done == SubSeq(type_map, 1, last)
    IN [casted_df |-> Cast(batch, AsDict(done)), errors |-> CastErrors(batch, done)]

\* Lines 6-25: the loop over the items of the type_map: each column the
\* batch has is converted from df[col], each one it does not have gives its
\* error, and the loop goes on.
CastLoop(batch, type_map) ==
    [casted_df |-> Cast(batch, AsDict(type_map)), errors |-> CastErrors(batch, type_map)]

\* Lines 30-38: the type of the pydantic field of a column, str for a column
\* the type_map does not have.
FieldType(type_map, col) == IF col \in DOMAIN type_map THEN type_map[col] ELSE "str"

\* The dtype of column j of casted_df is numeric: pd.to_numeric gives
\* float64, astype(str) gives object, and a column left as it was is numeric
\* when it holds numbers and nulls only.
NumericColumn(casted, type_map, j) ==
    LET t == FieldType(type_map, casted.columns[j])
    IN IF casted.columns[j] \in DOMAIN type_map /\ t = "float" THEN TRUE
       ELSE IF casted.columns[j] \in DOMAIN type_map /\ t = "str" THEN FALSE
       ELSE \A i \in 1..Len(casted.rows) : casted.rows[i][j][1] \in {"num", "null"}

\* Line 55: the rows iterrows yields have one dtype, float64 when every
\* column is numeric and object otherwise.
NumericRows(casted, type_map) ==
    \A j \in 1..Len(casted.columns) : NumericColumn(casted, type_map, j)

\* Line 59: row.where(pd.notnull(row), None) on one cell: in a row of dtype
\* object a null becomes None; in a row of dtype float64 None is the NaN the
\* cell already holds (pandas 1.3 and later), and the cell stays a float.
where_notnull(cell, numeric_row) ==
    IF ~isnull(cell) THEN cell
    ELSE IF numeric_row THEN <<"num", "nan">>
    ELSE <<"none", "None">>

\* Line 64: the pydantic (v2, line 58) field of type field_type takes the
\* value: a float field takes a float, NaN included, and a string that parses
\* as one; a str field takes a str only; an int or a bool field takes none of
\* 1.5, NaN, '1.5' and 'x'; no field takes None.
FieldAccepts(field_type, value) ==
    IF field_type = "float"
    THEN value[1] = "num" \/ (value[1] = "str" /\ value[2] \in {"1.5", "nan"})
    ELSE IF field_type = "str" THEN value[1] = "str"
    ELSE FALSE

\* Lines 59-64: the columns whose field refuses the value of row i.
FailingColumns(casted, type_map, i) ==
    {casted.columns[j] : j \in
        {k \in 1..Len(casted.columns) :
            ~FieldAccepts(FieldType(type_map, casted.columns[k]),
                          where_notnull(casted.rows[i][k], NumericRows(casted, type_map)))}}

\* Mutant: the loop over the rows stops at the first row that fails.
ValidateRows_stop_at_first(casted, type_map) ==
    LET failing == {i \in 1..Len(casted.rows) : FailingColumns(casted, type_map, i) # {}}
    IN IF failing = {} THEN <<>>
       ELSE LET first == CHOOSE i \in failing : \A k \in failing : i <= k
            IN <<[index |-> first - 1, errors |-> FailingColumns(casted, type_map, first)]>>

\* Lines 52-69: the loop over the rows: one entry, with the index of the row
\* (0 for the first), for each row DataModel refuses, in the order of the rows.
ValidateRows(casted, type_map) ==
    LET failing == SelectSeq([i \in 1..Len(casted.rows) |-> i],
                             LAMBDA i : FailingColumns(casted, type_map, i) # {})
    IN [k \in 1..Len(failing) |->
            [index |-> failing[k] - 1,
             errors |-> FailingColumns(casted, type_map, failing[k])]]

\* Lines 5-75.  Without columns there is no field and line 44 returns.
auto_cast_and_validate(batch, type_map) ==
    LET casted == CastLoop(batch, type_map)
    IN [casted_df |-> casted.casted_df,
        errors |-> casted.errors,
        validation_errors |->
            IF casted.casted_df.columns = <<>> THEN <<>>
            ELSE ValidateRows(casted.casted_df, AsDict(type_map))]

\* A call auto_cast_and_validate(v_df, v_type_map) on any batch and type_map.
InitValidate ==
    /\ store = OtherTable
    /\ store0 = OtherTable
    /\ clock = 0
    /\ calls = 0
    /\ pc = "validate"
    /\ engine = "none"
    /\ result = "none"
    /\ ops = NoOps
    /\ NoCall
    /\ current_sqlalchemy_schema_map = <<>>
    /\ db_schema_map = <<>>
    /\ compatible = "unset"
    /\ versioned_names = <<>>
    /\ vpc = "called"
    /\ v_df \in VBatches
    /\ v_type_map \in VTypeMaps
    /\ casted_df = [columns |-> <<>>, rows |-> <<>>]
    /\ errors = <<>>
    /\ validation_errors = <<>>
    /\ PipelineOff

ValidateCall ==
    /\ vpc = "called"
    /\ LET returned == auto_cast_and_validate(v_df, v_type_map)
       IN /\ casted_df' = returned.casted_df
          /\ errors' = returned.errors
          /\ validation_errors' = returned.validation_errors
    /\ vpc' = "returned"
    /\ UNCHANGED <<store, clock, calls, pc, engine, result, base_table_name, df,
                   current_sqlalchemy_schema_map, table_exists, db_schema_map,
                   compatible, final_table_name, if_exists, raised, ops, store0,
                   versioned_names, v_df, v_type_map, pipeline_vars>>

SpecValidate == InitValidate /\ [][ValidateCall]_vars

\* ------------------------------------------ etl_pipeline.py: run_pipeline
\* The stages of a run that goes all the way, in the order of lines 40-71.
PipelineOrder == <<"extract", "infer", "cast", "validate", "transform", "load">>

\* transform.py lines 5-8: the nulls of a numeric column 'amount' become 0.
transform(batch, type_map) ==
    [columns |-> batch.columns,
     rows |-> [i \in 1..Len(batch.rows) |->
                [j \in 1..Len(batch.columns) |->
                    IF /\ batch.columns[j] = "amount"
                       /\ NumericColumn(batch, type_map, j)
                       /\ isnull(batch.rows[i][j])
                    THEN <<"num", "0">>
                    ELSE batch.rows[i][j]]]]

\* infer_types.py lines 26-38: float or str for each column LightAutoML
\* kept a role for.
InferredTypeMaps(columns) ==
    {type_map \in SchemaMaps({"float", "str"}) :
        \A k \in 1..Len(type_map) : \E j \in 1..Len(columns) : columns[j] = type_map[k].name}

\* Lines 33-41: a run starts and extract gives the batch.
RunPipeline(batch) ==
    /\ ppc \in {"off", "done", "failed"}
    /\ pc = "idle"
    /\ calls < MaxCalls
    /\ v_df' = batch
    /\ v_type_map' = <<>>
    /\ casted_df' = [columns |-> <<>>, rows |-> <<>>]
    /\ errors' = <<>>
    /\ validation_errors' = <<>>
    /\ vpc' = "off"
    /\ ppc' = "extracted"
    /\ stages' = <<"extract">>
    /\ UNCHANGED <<store, clock, calls, pc, engine, result, base_table_name, df,
                   current_sqlalchemy_schema_map, table_exists, db_schema_map,
                   compatible, final_table_name, if_exists, raised, ops, store0,
                   versioned_names>>

\* Lines 42-44: df.empty: the run returns.
PipelineSkip ==
    /\ ppc = "extracted"
    /\ (v_df.rows = <<>> \/ v_df.columns = <<>>)
    /\ ppc' = "done"
    /\ UNCHANGED <<store, clock, calls, pc, engine, result, base_table_name, df,
                   current_sqlalchemy_schema_map, table_exists, db_schema_map,
                   compatible, final_table_name, if_exists, raised, ops, store0,
                   versioned_names, validate_vars, stages>>

\* Lines 47-48: type_map = infer_types_lama(df.copy())
PipelineInfer(type_map) ==
    /\ ppc = "extracted"
    /\ ~(v_df.rows = <<>> \/ v_df.columns = <<>>)
    /\ v_type_map' = type_map
    /\ ppc' = "inferred"
    /\ stages' = Append(stages, "infer")
    /\ UNCHANGED <<store, clock, calls, pc, engine, result, base_table_name, df,
                   current_sqlalchemy_schema_map, table_exists, db_schema_map,
                   compatible, final_table_name, if_exists, raised, ops, store0,
                   versioned_names, vpc, v_df, casted_df, errors, validation_errors>>

\* Line 54, validate.py lines 6-25: the cast of auto_cast_and_validate.
PipelineCast ==
    /\ ppc = "inferred"
    /\ casted_df' = auto_cast_and_validate(v_df, v_type_map).casted_df
    /\ errors' = auto_cast_and_validate(v_df, v_type_map).errors
    /\ ppc' = "casted"
    /\ stages' = Append(stages, "cast")
    /\ UNCHANGED <<store, clock, calls, pc, engine, result, base_table_name, df,
                   current_sqlalchemy_schema_map, table_exists, db_schema_map,
                   compatible, final_table_name, if_exists, raised, ops, store0,
                   versioned_names, vpc, v_df, v_type_map, validation_errors>>

\* Line 54, validate.py lines 27-75: the row checks of auto_cast_and_validate,
\* and its return.
PipelineValidate ==
    /\ ppc = "casted"
    /\ validation_errors' = auto_cast_and_validate(v_df, v_type_map).validation_errors
    /\ ppc' = "validated"
    /\ stages' = Append(stages, "validate")
    /\ UNCHANGED <<store, clock, calls, pc, engine, result, base_table_name, df,
                   current_sqlalchemy_schema_map, table_exists, db_schema_map,
                   compatible, final_table_name, if_exists, raised, ops, store0,
                   versioned_names, vpc, v_df, v_type_map, casted_df, errors>>

\* Lines 56-65: the two error lists are printed, and df_transformed =
\* transform(df_validated).
PipelineTransform ==
    /\ ppc = "validated"
    /\ casted_df' = transform(casted_df, AsDict(v_type_map))
    /\ ppc' = "transformed"
    /\ stages' = Append(stages, "transform")
    /\ UNCHANGED <<store, clock, calls, pc, engine, result, base_table_name, df,
                   current_sqlalchemy_schema_map, table_exists, db_schema_map,
                   compatible, final_table_name, if_exists, raised, ops, store0,
                   versioned_names, vpc, v_df, v_type_map, errors, validation_errors>>

\* Mutant: a run with validation errors returns without loading.
PipelineLoad_unless_errors ==
    /\ ppc = "transformed"
    /\ IF validation_errors # <<>>
       THEN /\ ppc' = "done"
            /\ UNCHANGED <<store, clock, calls, pc, engine, result, base_table_name,
                           df, current_sqlalchemy_schema_map, table_exists,
                           db_schema_map, compatible, final_table_name, if_exists,
                           raised, ops, store0, versioned_names, validate_vars,
                           stages>>
       ELSE /\ load_to_postgres(casted_df.columns, Len(casted_df.rows), "clean_data")
            /\ ppc' = "loading"
            /\ stages' = Append(stages, "load")
            /\ v_df' = [columns |-> <<>>, rows |-> <<>>]
            /\ casted_df' = [columns |-> <<>>, rows |-> <<>>]
            /\ UNCHANGED <<vpc, v_type_map, errors, validation_errors>>

\* Line 71: load_to_postgres(df=df_transformed, type_map=type_map,
\* base_table_name="clean_data"); the run does not read its batches again.
PipelineLoad ==
    /\ ppc = "transformed"
    /\ load_to_postgres(casted_df.columns, Len(casted_df.rows), "clean_data")
    /\ ppc' = "loading"
    /\ stages' = Append(stages, "load")
    /\ v_df' = [columns |-> <<>>, rows |-> <<>>]
    /\ casted_df' = [columns |-> <<>>, rows |-> <<>>]
    /\ UNCHANGED <<vpc, v_type_map, errors, validation_errors>>

\* load.py lines 104-110 in the call of line 71: the schema of the batch is
\* built from the type_map of the run.
PipelineBuild ==
    /\ ppc = "loading"
    /\ BuildSchema(AsDict(v_type_map))

\* Lines 71-72: load_to_postgres is back: the run is over, failed when the
\* call raised, and its locals are gone.
PipelineEnd ==
    /\ ppc = "loading"
    /\ pc = "idle"
    /\ ppc' = IF result = "raised" THEN "failed" ELSE "done"
    /\ v_type_map' = <<>>
    /\ errors' = <<>>
    /\ validation_errors' = <<>>
    /\ UNCHANGED <<store, clock, calls, pc, engine, result, base_table_name, df,
                   current_sqlalchemy_schema_map, table_exists, db_schema_map,
                   compatible, final_table_name, if_exists, raised, ops, store0,
                   versioned_names, vpc, v_df, casted_df, stages>>

Extract ==
    /\ ppc \in {"off", "done", "failed"}
    /\ \E batch \in VBatches : RunPipeline(batch)

Infer ==
    /\ ppc = "extracted"
    /\ \E type_map \in InferredTypeMaps(v_df.columns) : PipelineInfer(type_map)

\* The runs of the pipeline, one after the other, each with its load call.
SpecPipeline ==
    Init /\ [][\/ Extract
               \/ PipelineSkip
               \/ Infer
               \/ PipelineCast
               \/ PipelineValidate
               \/ PipelineTransform
               \/ PipelineLoad
               \/ PipelineBuild
               \/ Probe
               \/ Fetch
               \/ Write
               \/ Finally
               \/ PipelineEnd]_vars

\* ================================================================ claims
\* The vocabulary of the specification, read off the locals of the call.

\* The SchemaDecision of the running call, "None" before it is taken.
Decision ==
    IF if_exists = "append" THEN "Append"
    ELSE IF if_exists = "fail" /\ final_table_name = <<base_table_name>> THEN "CreateFresh"
    ELSE IF if_exists = "fail" THEN "CreateVersioned"
    ELSE "None"

\* The running call found the base table and fetched its schema.
Fetched == pc \in {"to_sql", "finally"} /\ table_exists = "True" /\ if_exists # "unset"

\* The running call has written, and the write did not raise.
Written == pc = "finally" /\ ~raised

\* The running call has not written, or its write raised.
NotWritten == pc \in {"check", "probe", "fetch", "to_sql"} \/ (pc = "finally" /\ raised)

\* The batch has neither rows nor columns missing.
NonEmptyBatch == df.rows # <<>> /\ df.columns # <<>>

\* The table the batch makes: the target schema as the store holds it, and
\* all rows of the batch.
TargetTable ==
    [cols |-> [i \in 1..Len(current_sqlalchemy_schema_map) |->
                 [name |-> current_sqlalchemy_schema_map[i].name,
                  type |-> Reflected(current_sqlalchemy_schema_map[i].type)]],
     rows |-> df.rows]

\* Since the call was entered, exactly the table name was created, as the
\* table the batch makes, and nothing else changed.
CreatedOnly(name) ==
    /\ name \notin DOMAIN store0
    /\ DOMAIN store = DOMAIN store0 \cup {name}
    /\ store[name] = TargetTable
    /\ \A other \in DOMAIN store0 : store[other] = store0[other]

\* Since the call was entered, exactly the rows of the batch were added at the
\* end of the base table, and nothing else changed.
AppendedOnly ==
    /\ DOMAIN store = DOMAIN store0
    /\ <<base_table_name>> \in DOMAIN store0
    /\ store[<<base_table_name>>].cols = store0[<<base_table_name>>].cols
    /\ store[<<base_table_name>>].rows = store0[<<base_table_name>>].rows \o df.rows
    /\ \A other \in DOMAIN store0 \ {<<base_table_name>>} : store[other] = store0[other]

\* The running call decided CreateVersioned: the new name is the base name
\* with the rendered clock, the base table is as it was, and a write that did
\* not raise created exactly the new table.
VersionedEffect ==
    /\ Decision = "CreateVersioned"
    /\ final_table_name = <<base_table_name, strftime(clock)>>
    /\ store[<<base_table_name>>] = store0[<<base_table_name>>]
    /\ Written => CreatedOnly(final_table_name)
    /\ NotWritten => store = store0

\* The running call decided Append: no table is created, and a write that did
\* not raise added exactly the rows of the batch to the base table.
AppendEffect ==
    /\ Decision = "Append"
    /\ final_table_name = <<base_table_name>>
    /\ Written => AppendedOnly
    /\ NotWritten => store = store0

\* The broad category of a type class as the specification names them:
\* numeric covers the integer, float and decimal kinds, temporal the date, time
\* and timestamp kinds.
BroadCategory(t) ==
    IF t \in {"String", "VARCHAR", "TEXT"} THEN "textual"
    ELSE IF t \in {"Integer", "INTEGER", "BIGINT", "Float", "DOUBLE_PRECISION", "NUMERIC"}
    THEN "numeric"
    ELSE IF t \in {"DateTime", "TIMESTAMP", "DATE"} THEN "temporal"
    ELSE IF t \in {"Boolean", "BOOLEAN"} THEN "boolean"
    ELSE "none"

SameNames == Names(db_schema_map) = Names(current_sqlalchemy_schema_map)

\* are_schemas_compatible has run on db_schema_map and
\* current_sqlalchemy_schema_map, inside a load or called directly.
Compared == compatible # "unset"

\* ---------------------------------------------------------------------- C1
\* C1: a call with a non-empty batch, entered when no table has the base name,
\* decides CreateFresh and, unless the store raises, creates exactly the table
\* <<base_table_name>> with the target schema and all rows of the batch; no
\* other table is created or modified, and a call that raises changes nothing.
C1_AbsentTableIsCreated ==
    (pc # "idle" /\ pc # "compare" /\ pc # "compared" /\ NonEmptyBatch
        /\ <<base_table_name>> \notin DOMAIN store0) =>
        /\ pc # "fetch"
        /\ table_exists \in {"unset", "False"}
        /\ table_exists = "False" => Decision = "CreateFresh"
        /\ Written => (Decision = "CreateFresh" /\ CreatedOnly(<<base_table_name>>))
        /\ NotWritten => store = store0

C1_Witness ==
    /\ Written
    /\ <<"clean_data">> \notin DOMAIN store0
    /\ <<"clean_data">> \in DOMAIN store
    /\ Len(store[<<"clean_data">>].rows) = 2
    /\ Len(store[<<"clean_data">>].cols) = 2
    /\ DOMAIN store0 # {}

\* ---------------------------------------------------------------------- C2
\* C2: when the base table exists with the schema an earlier load of the same
\* target schema gave it, the decision is Append: no table is created and the
\* base table gains exactly the rows of the batch.
C2_IdenticalSchemaAppends ==
    (Fetched /\ db_schema_map = TargetTable.cols) => AppendEffect

\* ---------------------------------------------------------------------- C3
\* C3: when the target schema has a column that the existing base table lacks,
\* the decision is CreateVersioned: unless the store raises, the table
\* base_table_name + "_" + timestamp is created with the target schema and all
\* rows of the batch, and the base table keeps its columns and rows.
TargetHasNewColumn ==
    \E i \in 1..Len(current_sqlalchemy_schema_map) :
        \A j \in 1..Len(store0[<<base_table_name>>].cols) :
            store0[<<base_table_name>>].cols[j].name # current_sqlalchemy_schema_map[i].name

C3_NewColumnCreatesVersioned ==
    (Fetched /\ TargetHasNewColumn) => VersionedEffect

C3_Witness ==
    /\ Fetched
    /\ Written
    /\ TargetHasNewColumn
    /\ store0[<<base_table_name>>].cols # <<>>
    /\ store0[<<base_table_name>>].rows # <<>>
    /\ final_table_name \in DOMAIN store
    /\ Len(store[final_table_name].rows) = 2

\* ---------------------------------------------------------------------- C4
\* C4: a call whose batch has no rows or no columns ends as a skip with no
\* store operation at all (no has_table, no get_columns, no to_sql), whether
\* or not the base table exists, and leaves the store as it was.
EmptyBatch == df.rows = <<>> \/ df.columns = <<>>

C4_EmptyBatchIsNoOp ==
    /\ []((pc \in {"check", "probe", "fetch", "to_sql", "finally"} /\ EmptyBatch) =>
            (pc = "check" /\ ops = NoOps /\ store = store0 /\ Decision = "None"))
    /\ [][(pc = "check" /\ EmptyBatch) =>
            (pc' = "idle" /\ result' = "skipped" /\ engine' = "disposed"
                /\ ops' = NoOps /\ store' = store)]_vars
    /\ [](result = "skipped" => (pc = "idle" /\ ops = NoOps))

C4_Witness ==
    /\ result = "skipped"
    /\ ops = NoOps
    /\ store = store0
    /\ <<"clean_data">> \in DOMAIN store

\* ---------------------------------------------------------------------- C5
\* The running call tried to fetch the schema and has ended without one: the
\* catalog read raised, or it gave no columns.
FetchRaised == pc = "finally" /\ ops.get_columns = 1 /\ if_exists = "unset"

FetchedNoColumns == Fetched /\ db_schema_map = <<>>

\* C5, as claimed: whenever the fetch of the schema of an existing base table
\* raises or yields no columns, the call goes on to a CreateVersioned write.
C5_FetchFailureDegrades ==
    (FetchRaised \/ (pc = "finally" /\ FetchedNoColumns)) =>
        (Decision = "CreateVersioned" /\ ops.to_sql = 1)

\* C5, amended: a fetch that yields no columns never appends and decides
\* CreateVersioned, writing the batch into a new timestamp-suffixed table
\* unless the store raises; a fetch that raises ends the call with the error,
\* without any write.
C5_EmptySchemaVersionsFetchErrorAborts ==
    /\ FetchedNoColumns =>
        (VersionedEffect /\ compatible = "unset" /\ (pc = "finally" => ops.to_sql = 1))
    /\ FetchRaised => (raised /\ ops.to_sql = 0 /\ store = store0 /\ Decision = "None")

C5_Witness ==
    /\ FetchedNoColumns
    /\ Written
    /\ store0[<<base_table_name>>].cols = <<>>
    /\ final_table_name \in DOMAIN store
    /\ store[final_table_name].rows = df.rows

\* ---------------------------------------------------------------------- C6
\* C6: whenever the column name sequences of the two schema maps differ (an
\* extra, missing, renamed or reordered column), are_schemas_compatible gives
\* False; a load whose batch columns differ in this way from the base table's,
\* a reordering included, creates a versioned table and does not append.
C6_NameSequenceDecides ==
    /\ (Compared /\ ~SameNames) => compatible = "False"
    /\ (Fetched /\ ~SameNames) =>
        (db_schema_map = store0[<<base_table_name>>].cols /\ VersionedEffect)

\* A load of the columns of the base table in the other order, with the types
\* the table has.
C6_Witness ==
    /\ Fetched
    /\ Written
    /\ compatible = "False"
    /\ Len(db_schema_map) = 2
    /\ Len(current_sqlalchemy_schema_map) = 2
    /\ db_schema_map[1] = TargetTable.cols[2]
    /\ db_schema_map[2] = TargetTable.cols[1]
    /\ final_table_name # <<base_table_name>>
    /\ final_table_name \in DOMAIN store

\* ---------------------------------------------------------------------- C7
\* Same names in the same order, and every column is VARCHAR or TEXT in the
\* table and String in the target.
TextOnText ==
    /\ SameNames
    /\ db_schema_map # <<>>
    /\ \A i \in 1..Len(db_schema_map) :
        /\ db_schema_map[i].type \in {"VARCHAR", "TEXT"}
        /\ current_sqlalchemy_schema_map[i].type = "String"

\* C7: a persisted VARCHAR or TEXT column is compatible with a target String
\* column of the same name, so a load of a Text-typed batch into such a table
\* appends to the base table and creates no versioned table.
C7_TextKindsCompatible ==
    /\ (Compared /\ TextOnText) => compatible = "True"
    /\ (Fetched /\ TextOnText) => AppendEffect

C7_Witness ==
    /\ Fetched
    /\ Written
    /\ TextOnText
    /\ Len(db_schema_map) = 2
    /\ db_schema_map[1].type = "VARCHAR"
    /\ db_schema_map[2].type = "TEXT"
    /\ Len(store[<<base_table_name>>].rows) = 2

\* ---------------------------------------------------------------------- C8
\* C8: with the same names in the same order, columns whose two types fall in
\* the same broad category (textual, numeric, temporal, boolean) are
\* compatible, also when the type classes differ.
C8_SameBroadCategoryCompatible ==
    (pc = "compared" /\ SameNames
        /\ \A i \in 1..Len(db_schema_map) :
            /\ BroadCategory(db_schema_map[i].type) # "none"
            /\ BroadCategory(db_schema_map[i].type)
                 = BroadCategory(current_sqlalchemy_schema_map[i].type))
        => compatible = "True"

\* ---------------------------------------------------------------------- C9
\* C9: are_schemas_compatible(P, P) gives True for every schema map P, also
\* when a type of P is in none of the four broad categories.
C9_Reflexive ==
    (pc = "compared" /\ db_schema_map = current_sqlalchemy_schema_map)
        => compatible = "True"

C9_Witness ==
    /\ pc = "compared"
    /\ db_schema_map = current_sqlalchemy_schema_map
    /\ Len(db_schema_map) = 2
    /\ db_schema_map[1].type = "BYTEA"
    /\ db_schema_map[2].type = "INTEGER"
    /\ compatible = "True"

\* --------------------------------------------------------------------- C10
\* Same names in the same order, and some column's two types are neither the
\* same class nor in the same broad category.
TypeMismatch ==
    /\ SameNames
    /\ \E i \in 1..Len(db_schema_map) :
        /\ db_schema_map[i].type # current_sqlalchemy_schema_map[i].type
        /\ \/ BroadCategory(db_schema_map[i].type) = "none"
           \/ BroadCategory(db_schema_map[i].type)
                # BroadCategory(current_sqlalchemy_schema_map[i].type)

\* C10: with matching names and a column whose types are neither the same nor
\* in the same broad category, are_schemas_compatible gives False (it gives an
\* answer, it does not raise), and a load of such a batch creates a versioned
\* table and does not append to the base table.
C10_TypeMismatchIncompatible ==
    /\ pc = "compared" => compatible \in {"True", "False"}
    /\ (Compared /\ TypeMismatch) => compatible = "False"
    /\ (Fetched /\ TypeMismatch) => VersionedEffect

\* The base table has a float column and the batch brings text under its name.
C10_Witness ==
    /\ Fetched
    /\ Written
    /\ TypeMismatch
    /\ \E i \in 1..Len(db_schema_map) :
        /\ db_schema_map[i].type = "DOUBLE_PRECISION"
        /\ current_sqlalchemy_schema_map[i].type = "String"
    /\ final_table_name \in DOMAIN store
    /\ store[<<base_table_name>>] = store0[<<base_table_name>>]

\* ------------------------------------------------------------------- C11
\* The order of two rendered timestamps as strings of digits.
StampLess(a, b) ==
    \E i \in 1..StampWidth :
        /\ a[i] < b[i]
        /\ \A j \in 1..(i - 1) : a[j] = b[j]

\* C11: the versioned names computed for one base table by the calls of a
\* process are strictly increasing in the order they were computed, hence
\* pairwise distinct.
C11_VersionedNamesIncrease ==
    \A i \in DOMAIN versioned_names : \A j \in DOMAIN versioned_names :
        (i < j /\ versioned_names[i][1] = versioned_names[j][1])
            => StampLess(versioned_names[i][2], versioned_names[j][2])

\* ------------------------------------------------------------------- C12
\* A call is under way.
InCall == pc \in {"check", "probe", "fetch", "to_sql", "finally"}

\* C12: the engine a call acquired is live while the call runs and disposed
\* when control is back with the caller, on the skipped, the processed and the
\* raising exit alike; an error is propagated (the call ends as "raised") once
\* the engine is disposed, and from the failing operation on the call makes
\* no store operation: nothing is retried.
C12_EngineReleasedOnEveryExit ==
    /\ [](InCall => engine = "live")
    /\ []((pc = "idle" /\ calls > 0) =>
            (engine = "disposed" /\ result \in {"skipped", "processed", "raised"}))
    /\ [][(InCall /\ pc' = "idle") =>
            /\ engine' = "disposed"
            /\ result' = (IF raised THEN "raised"
                          ELSE IF pc = "check" THEN "skipped" ELSE "processed")]_vars
    /\ [][(InCall /\ raised) => (pc' = "idle" /\ ops' = ops /\ store' = store)]_vars
    /\ [](ops.has_table <= 2 /\ ops.get_columns <= 1 /\ ops.to_sql <= 1)

\* A write failed, and the call is over with the engine disposed.
C12_Witness ==
    pc = "idle" /\ result = "raised" /\ ops.to_sql = 1 /\ engine = "disposed"

\* ------------------------------------------------------------------- C13
\* The tables that are not as they were when the running call was entered.
ChangedTables ==
    {name \in DOMAIN store \cup DOMAIN store0 :
        \/ name \notin DOMAIN store0
        \/ name \notin DOMAIN store
        \/ store[name] # store0[name]}

\* The rows the running call added to the table name.
AddedRows(name) ==
    IF name \in DOMAIN store0
    THEN SubSeq(store[name].rows, Len(store0[name].rows) + 1, Len(store[name].rows))
    ELSE store[name].rows

\* C13: a call that is not skipped and does not raise makes exactly one write
\* (one to_sql); that write changes exactly one table, the one it names, and
\* adds the rows of the batch to it once.  A skipped call makes none.
C13_ExactlyOneWrite ==
    /\ Written =>
        /\ ops.to_sql = 1
        /\ ChangedTables = {final_table_name}
        /\ AddedRows(final_table_name) = df.rows
    /\ (pc = "idle" /\ result = "processed") => ops.to_sql = 1
    /\ (pc = "idle" /\ result = "skipped") => ops.to_sql = 0

\* A batch of two rows has been appended to a base table that held rows.
C13_Witness ==
    /\ Written
    /\ Decision = "Append"
    /\ Len(df.rows) = 2
    /\ store0[<<base_table_name>>].rows # <<>>

\* ------------------------------------------------------------------- C14
\* The running call is about to create a table that is there by now.
CreateOnExisting ==
    pc = "to_sql" /\ if_exists = "fail" /\ final_table_name \in DOMAIN store

\* C14: the create of a table that is there at creation time raises and
\* leaves every table, that one included, as it is.
C14_CreateOnExistingFails ==
    [][CreateOnExisting => (raised' /\ pc' = "finally" /\ store' = store)]_vars

\* The probe did not find the base table, another writer created it before
\* the write, and the write raised, the other writer's table being as it was.
C14_Witness ==
    /\ pc = "finally"
    /\ raised
    /\ table_exists = "False"
    /\ ops.to_sql = 1
    /\ <<base_table_name>> \notin DOMAIN store0
    /\ <<base_table_name>> \in DOMAIN store
    /\ store[<<base_table_name>>].rows = <<<<0, 1>>>>

\* ----------------------------------------------------- C15 .. C19: validate
\* auto_cast_and_validate has returned.
Returned == vpc = "returned"

ColumnIndexes == 1..Len(v_df.columns)
RowIndexes == 1..Len(v_df.rows)

\* The SemanticType of column j, "None" for a column the TypeMap does not have.
TypeOf(j) == Get(v_type_map, v_df.columns[j])

\* The value is of the type: a number for float, a string for str; none of
\* the cells of the model (1.5, '1.5', 'x', null) is an int or a bool.
ValueOfType(type, cell) ==
    \/ type = "float" /\ cell[1] = "num"
    \/ type = "str" /\ cell[1] = "str"

\* The rows with an entry in the validation error list.
ReportedRows == {validation_errors[k].index + 1 : k \in DOMAIN validation_errors}

\* The rows of the batch that hold an unparseable value in a Float column.
UnparseableRows ==
    {i \in RowIndexes :
        \E j \in ColumnIndexes : TypeOf(j) = "float" /\ v_df.rows[i][j] = OtherString}

\* Every column is Float or Text, there is a Float column, and every cell is
\* of the type of its column, but for unparseable strings in Float columns.
ConformsButUnparseableFloats ==
    /\ \A j \in ColumnIndexes : TypeOf(j) \in {"float", "str"}
    /\ \E j \in ColumnIndexes : TypeOf(j) = "float"
    /\ \A i \in RowIndexes : \A j \in ColumnIndexes :
            \/ ValueOfType(TypeOf(j), v_df.rows[i][j])
            \/ TypeOf(j) = "float" /\ v_df.rows[i][j] = OtherString

\* C15: for a batch whose cells conform but for unparseable values in Float
\* columns, in the rows S, the casted batch has as many rows as the batch, the
\* unparseable cells are null in it, and the validation error list has
\* exactly one entry for each row of S and none for any other row.
C15_UnparseableFloatRowsReported ==
    (Returned /\ ConformsButUnparseableFloats) =>
        /\ Len(casted_df.rows) = Len(v_df.rows)
        /\ \A i \in RowIndexes : \A j \in ColumnIndexes :
                (TypeOf(j) = "float" /\ v_df.rows[i][j] = OtherString)
                    => isnull(casted_df.rows[i][j])
        /\ ReportedRows = UnparseableRows
        /\ Len(validation_errors) = Cardinality(UnparseableRows)

\* The entries of the validation error list for row i.
EntriesOf(i) == {k \in DOMAIN validation_errors : validation_errors[k].index = i - 1}

\* C16: the batch returned is the casted batch, row for row; each row that
\* fails its check has exactly one entry in the validation error list, a row
\* that passes has none, whatever the rows before it did; the entries are in
\* the order of the rows.
C16_EveryRowCheckedOnce ==
    Returned =>
        /\ casted_df = Cast(v_df, AsDict(v_type_map))
        /\ Len(casted_df.rows) = Len(v_df.rows)
        /\ \A i \in RowIndexes :
                Cardinality(EntriesOf(i)) =
                    IF FailingColumns(casted_df, AsDict(v_type_map), i) # {} THEN 1 ELSE 0
        /\ \A k, l \in DOMAIN validation_errors :
                k < l => validation_errors[k].index < validation_errors[l].index

\* Two rows fail, and both have their entry.
C16_Witness ==
    /\ Returned
    /\ Len(casted_df.rows) = 2
    /\ FailingColumns(casted_df, AsDict(v_type_map), 1) # {}
    /\ FailingColumns(casted_df, AsDict(v_type_map), 2) # {}
    /\ Len(validation_errors) = 2

\* C17: in a column of type Integer or Boolean every cell is, after the
\* cast, of that type or null; a cell that cannot be cast is null.
C17_IntegerBooleanParsedOrNull ==
    Returned =>
        \A j \in ColumnIndexes : TypeOf(j) \in {"int", "bool"} =>
            \A i \in RowIndexes :
                /\ isnull(casted_df.rows[i][j]) \/ ValueOfType(TypeOf(j), casted_df.rows[i][j])
                /\ v_df.rows[i][j] = OtherString => isnull(casted_df.rows[i][j])

\* C18: a row of the casted batch in which every cell of a column of the
\* TypeMap is null or of the type of its column has no entry in the
\* validation error list, whatever its cells in the other columns are.
C18_NullAndUnmappedAccepted ==
    Returned =>
        \A i \in RowIndexes :
            (\A j \in ColumnIndexes :
                \/ TypeOf(j) = "None"
                \/ isnull(casted_df.rows[i][j])
                \/ ValueOfType(TypeOf(j), casted_df.rows[i][j]))
            => EntriesOf(i) = {}

\* C19: with a TypeMap that has every column of the batch, a column whose
\* cells are all null or of its type comes out of the cast as it was, and
\* the cast of the casted batch is the casted batch.
C19_CastIdempotent ==
    (Returned /\ \A j \in ColumnIndexes : TypeOf(j) # "None") =>
        /\ \A j \in ColumnIndexes :
                (\A i \in RowIndexes :
                    isnull(v_df.rows[i][j]) \/ ValueOfType(TypeOf(j), v_df.rows[i][j]))
                => \A i \in RowIndexes : casted_df.rows[i][j] = v_df.rows[i][j]
        /\ Cast(casted_df, AsDict(v_type_map)) = casted_df

\* ------------------------------------------------------------------- C20
\* The sequence s is the beginning of the sequence t.
IsPrefix(s, t) == Len(s) <= Len(t) /\ \A i \in 1..Len(s) : s[i] = t[i]

\* A run is over.
RunOver == ppc \in {"done", "failed"}

\* C20: the stages of a run come in the order extract, infer, cast,
\* validate, transform, load; a run on a batch that is not empty goes from
\* the transform to the call of load_to_postgres, whatever the two error
\* lists hold, with all columns and all rows of the batch under the name
\* 'clean_data', and that call is not skipped; a run is over without a load
\* only when the extracted batch was empty, and it has failed only when the
\* load raised.
C20_ErrorsNeverPreventLoad ==
    /\ [](IsPrefix(stages, PipelineOrder))
    /\ [][ppc = "transformed" =>
            /\ ppc' = "loading"
            /\ pc' = "check"
            /\ base_table_name' = "clean_data"
            /\ df'.columns = v_df.columns
            /\ Len(df'.rows) = Len(v_df.rows)
            /\ ~is_empty(df')]_vars
    /\ [](RunOver =>
            \/ stages = PipelineOrder
            \/ stages = <<"extract">> /\ (v_df.rows = <<>> \/ v_df.columns = <<>>))
    /\ []((RunOver /\ stages = PipelineOrder) =>
            (ppc = "failed" <=> result = "raised"))
    /\ []((RunOver /\ stages = <<"extract">>) => ppc = "done")

\* The load of a run has written the batch although a row failed validation.
C20_Witness ==
    /\ ppc = "loading"
    /\ stages = PipelineOrder
    /\ validation_errors # <<>>
    /\ Written
    /\ Len(df.rows) = 2

\* ------------------------------------------------------------------- C21
\* The physical type of a SemanticType tag, Text (String) for a missing tag
\* ("None") and for a tag outside the closed set.
PhysicalType(tag) ==
    IF tag = "float" THEN "Float"
    ELSE IF tag = "str" THEN "String"
    ELSE IF tag = "Timestamp" THEN "DateTime"
    ELSE IF tag = "int" THEN "Integer"
    ELSE IF tag = "bool" THEN "Boolean"
    ELSE "String"

\* C21: the TargetSchema has exactly the columns of the batch, in the order
\* of the batch whatever the order of the items of the TypeMap; each column
\* has the physical type of its tag in the TypeMap, and Text when the TypeMap
\* does not have the column or has a tag outside the closed set for it.
C21_TargetSchemaFollowsBatch ==
    pc = "schema_built" =>
        /\ Len(current_sqlalchemy_schema_map) = Len(df.columns)
        /\ \A i \in 1..Len(df.columns) :
                /\ current_sqlalchemy_schema_map[i].name = df.columns[i]
                /\ current_sqlalchemy_schema_map[i].type =
                        PhysicalType(Get(v_type_map, df.columns[i]))

\* The TypeMap lists its keys in another order than the batch and has a tag
\* outside the closed set: the schema is in the order of the batch, with Text
\* for that column.
C21_Witness ==
    /\ pc = "schema_built"
    /\ df.columns = <<"name", "id">>
    /\ v_type_map = <<[name |-> "id", type |-> "int"], [name |-> "name", type |-> "object"]>>
    /\ current_sqlalchemy_schema_map =
            <<[name |-> "name", type |-> "String"], [name |-> "id", type |-> "Integer"]>>

\* ------------------------------------------------------------------- C22
\* The keys of the TypeMap that the batch does not have.
MissingColumns ==
    {v_type_map[k].name : k \in
        {l \in 1..Len(v_type_map) :
            \A j \in ColumnIndexes : v_df.columns[j] # v_type_map[l].name}}

\* C22: the casted batch has the columns of the batch and no other; a column
\* the TypeMap does not have holds the cells it held; a key of the TypeMap
\* the batch does not have has exactly one entry in the list of column
\* errors, which has no other entry; every column of the TypeMap that the
\* batch has is cast, also when a key before it is missing from the batch;
\* the call leaves the batch it was given as it is.
C22_CasterFrame ==
    /\ [](Returned =>
            /\ casted_df.columns = v_df.columns
            /\ Len(casted_df.rows) = Len(v_df.rows)
            /\ \A i \in RowIndexes : \A j \in ColumnIndexes :
                    casted_df.rows[i][j] =
                        IF TypeOf(j) = "None" THEN v_df.rows[i][j]
                        ELSE CastCell(TypeOf(j), v_df.rows[i][j])
            /\ \A col \in MissingColumns :
                    Cardinality({k \in DOMAIN errors : errors[k].column = col}) = 1
            /\ Len(errors) = Cardinality(MissingColumns)
            /\ \A k \in DOMAIN errors : errors[k].error_type = "MissingColumn")
    /\ [][vpc = "called" => (vpc' = "returned" /\ v_df' = v_df)]_vars

\* The first key of the TypeMap is missing from the batch and has its entry;
\* the column of the second key is cast all the same, a cell of it to null.
C22_Witness ==
    /\ Returned
    /\ Len(v_type_map) = 2
    /\ v_df.columns = <<v_type_map[2].name>>
    /\ v_type_map[2].type = "float"
    /\ errors = <<[column |-> v_type_map[1].name, error_type |-> "MissingColumn"]>>
    /\ Len(v_df.rows) = 2
    /\ v_df.rows[1][1] = OtherString
    /\ isnull(casted_df.rows[1][1])

\* ------------------------------------------------------------------- C23
\* The versioned tables of the store.
VersionedTables == {name \in DOMAIN store : Len(name) = 2}

\* The rows are the rows of one batch, all of them, once.
RowsOfOneBatch(rows) ==
    /\ rows # <<>>
    /\ \E id \in 1..MaxCalls : rows = BatchRows(id, Len(rows))

\* C23: every versioned table holds the rows of exactly one batch and, once
\* it is there, stays as it is: rows are added to a table that exists only
\* if it is the base table; a batch that the base table is not compatible
\* with is always sent to a versioned name with if_exists = 'fail', also
\* when a versioned table with the schema of the batch exists, and, when
\* its write does not raise, is in a table that was not there.
C23_VersionedTablesHoldOneBatch ==
    /\ [](\A name \in VersionedTables : RowsOfOneBatch(store[name].rows))
    /\ [][\A name \in VersionedTables :
                name \in DOMAIN store' /\ store'[name] = store[name]]_vars
    /\ []((Written /\ Decision = "CreateVersioned") =>
            /\ final_table_name \notin DOMAIN store0
            /\ store[final_table_name].rows = df.rows
            /\ \A name \in DOMAIN store0 : store[name] = store0[name])
    /\ [](if_exists = "append" => final_table_name = <<base_table_name>>)
    /\ []((Fetched /\ compatible = "False") =>
            /\ Decision = "CreateVersioned"
            /\ Len(final_table_name) = 2
            /\ final_table_name[1] = base_table_name)

\* A batch has been written into a new versioned table although an earlier
\* versioned table of the base name has the schema of the batch.
C23_Witness ==
    /\ Written
    /\ Decision = "CreateVersioned"
    /\ compatible = "False"
    /\ \E name \in DOMAIN store0 :
            /\ Len(name) = 2
            /\ name[1] = base_table_name
            /\ name # final_table_name
            /\ store0[name].cols = TargetTable.cols
            /\ store[name] = store0[name]
    /\ store[final_table_name] = TargetTable

\* ------------------------------------------------------------------- C24
\* C24: every table of the store stays in the store, with the columns and
\* the column types it has, whatever a load call does.
C24_NoDropNoAlter ==
    [][\A name \in DOMAIN store :
            /\ name \in DOMAIN store'
            /\ store'[name].cols = store[name].cols]_vars

\* A batch has been appended to a base table with a column whose type is not
\* the one the batch would have created, and the table has kept its columns.
C24_Witness ==
    /\ Written
    /\ Decision = "Append"
    /\ \E i \in 1..Len(current_sqlalchemy_schema_map) :
            store0[<<base_table_name>>].cols[i].type
                # Reflected(current_sqlalchemy_schema_map[i].type)
    /\ store[<<base_table_name>>].cols = store0[<<base_table_name>>].cols
    /\ store[<<base_table_name>>].rows = store0[<<base_table_name>>].rows \o df.rows
====
